---- MODULE Spec2Model ----
(***************************************************************************)
(* Tun-Eye side panel (Panel Controller), its storage slot and the         *)
(* background Coordinator.                                                 *)
(*                                                                         *)
(* The repository holds two revisions of the panel script:                 *)
(*   "sidepanel" : src/Frontend/Side Panel/sidepanel.js (lines 1-448)      *)
(*   "part_000"  : src/unnamed/part_000 (revised 01-18-2026)               *)
(* They differ only in the analyze click handler and in which element is   *)
(* the retry control.  The variable build says which revision is loaded.   *)
(*                                                                         *)
(* Every handler runs to completion on the single UI thread, so one        *)
(* action is one handler (or one continuation of the async analyze         *)
(* handler between two awaits, or one timer / animation-frame callback).   *)
(***************************************************************************)
EXTENDS Integers, Sequences, FiniteSets, TLC

\* ---------------------------------------------------------------- bounds
MaxStimuli == 3    \* user clicks in the panel plus Coordinator writes

MaxActivations == 2 \* ACTIVATE_SELECTION_MODE messages the page receives
MaxGestures == 3    \* mouse gestures on the page
MaxSelLen == 3      \* characters in a selection

\* ------------------------------------------------------------- vocabulary
Builds == {"sidepanel", "part_000"}
Pages == {"page-intro", "page-select", "page-preview", "page-result"}
Containers == {"main-container"}
Elements == Pages \cup Containers          \* ids getElementById can find
UnknownId == "page-unknown"                \* an id no element carries
NavTargets == Elements \cup {UnknownId}    \* data-target attribute values
Navs == {1, 2}                             \* the .navigation bars
NumItems == 3                              \* .list items per bar
Attempts == 1..MaxStimuli                  \* analyze attempts, in click order

Texts == {"t1"}
Urls == {"u1"}
PanelUrl == "panel.html"
Absent == [type |-> "absent", data |-> ""]
Content(t, d) == [type |-> t, data |-> d]
EmptyObject == [type |-> "undefined", data |-> "undefined"]   \* {}
\* what the Selection Relay can report: trimmed non-empty text, or the src
\* of the clicked image (empty for an <img> without a src)
RelayPayloads == {Content("text", d) : d \in Texts}
                   \cup {Content("image", d) : d \in Urls \cup {""}}
NoNode == [tag |-> "none", data |-> ""]
NoRequest == [type |-> "none", value |-> ""]
NoContentMsg == "No content to analyze."
ErrorMsg == "Error analyzing content:"
Messages == {NoContentMsg, ErrorMsg}

\* numbers of the chart computations.  A score is a double: finite (v counts
\* units of 1e-7), NaN or -Infinity.
Fin(v) == [k |-> "fin", v |-> v]
NaN == [k |-> "nan", v |-> 0]
NegInfinity == [k |-> "-inf", v |-> 0]
One == 10000000          \* 1.0
Tenth == 1000000         \* 0.1
Hundredth == 100000      \* 0.01
WORD_THRESHOLD == 10     \* 1e-6
NoData == [confidence |-> [fake |-> 0, neutral |-> 0, real |-> 0],
           keywords |-> <<>>, set |-> FALSE]
\* confidence values of a response, in thousandths.  The arithmetic below is
\* exact; the inputs are ones for which the double product c * 100 is on the
\* same side of every half as the exact product (0.145, 0.285, 0.565 and
\* 0.575 are not: 0.145 * 100 is 14.499999999999998).
ConfidenceInputs == {0, 4, 5, 266, 400, 500, 600, 734, 995, 1000, 1200}
\* keyword scores (Math.tanh of the weights) as formattedData carries them:
\* around the colour thresholds, 0.035, 0.1 and 0.15, and NaN (the score of
\* an item without a numeric weight)
ScoreInputs == {Fin(v) : v \in {-20, -11, -10, 0, 10, 11, 20,
                                 350000, 1000000, 1500000}} \cup {NaN}
MaxKeywords == 2
KeywordInputs == UNION {[1..n -> ScoreInputs] : n \in 0..MaxKeywords}

VARIABLES
  build,           \* which revision of the panel script is loaded
  splash,          \* the loading sequence has not finished
  hidden,          \* element id -> carries class "hidden"
  navActive,       \* navigation bar -> .list items carrying class "active"
  selectionMode,   \* body carries class "selection-mode-active"
  stimuli,         \* user clicks and Coordinator writes so far
  contentDisplay,  \* first child of #content-display
  resultContent,   \* what #result-content shows, and which attempt wrote it
  retryVisible,    \* the retry control is displayed
  analyzeDisabled, \* analyzeBtn.disabled
  btnText,         \* analyzeBtn .btn-text label
  spinnerHidden,   \* analyzeBtn .spinner carries class "hidden"
  pc,              \* attempt -> "idle" | "fetch" | "json" | "done"
  outcome,         \* attempt -> "none" | "ok" | "failed"
  thrown,          \* attempt -> what was thrown inside its try block
  request,         \* body of the most recent POST
  posts,           \* attempt -> number of POSTs issued
  timer,           \* attempt -> its placeholder setTimeout is pending
  raf,             \* attempt -> its requestAnimationFrame render is pending
  confidenceChart, \* global chart instance (0 = null), named by attempt
  keywordChart,    \* global chart instance (0 = null), named by attempt
  liveConfidence,  \* history: confidence Chart instances created and not
                   \* destroyed
  liveKeyword,     \* history: keyword Chart instances created and not
                   \* destroyed
  log,             \* console.error message -> times written
  slot,            \* chrome.storage.local contentToAnalyze
  events,          \* storage.onChanged events not yet delivered (newValue)
  removes,         \* storage.local.remove calls not yet applied
  late,            \* history: where in events the first write made while a
                   \* removal was pending sits (0 none; once delivered, -1,
                   \* or -2 if the slot had been cleared before)
  panelOpen,       \* the side panel document is loaded
  openPending,     \* a chrome.sidePanel.open call has not run yet
  activated,       \* activateSelector calls made on the page so far
  mouseupListeners,\* activations whose textSelectHandler is attached
  clickListeners,  \* activations whose imageClickHandler is attached
  sent,            \* CONTENT_SELECTED messages sent, with the sending
                   \* activation
  gestures,        \* mouse gestures made on the page so far
  analysisData,    \* confidence of the last response, in thousandths
  formattedData,   \* the chart data built from the last response
  statusClass,     \* renderResultCharts: class of the status indicator
  chartMax,        \* renderResultCharts: axis ceiling of the keyword chart
  backgroundColor  \* renderResultCharts: colour of each keyword bar

vars == <<build, splash, hidden, navActive, selectionMode, stimuli,
          contentDisplay, resultContent, retryVisible, analyzeDisabled,
          btnText, spinnerHidden, pc, outcome, thrown, request, posts, timer,
          raf,
          confidenceChart, keywordChart, liveConfidence, liveKeyword, log,
          slot, events, removes, late,
          panelOpen, openPending, activated, mouseupListeners,
          clickListeners, sent, gestures, analysisData, formattedData,
          statusClass, chartMax, backgroundColor>>

navVars == <<hidden, navActive>>
buttonVars == <<analyzeDisabled, btnText, spinnerHidden>>
attemptVars == <<pc, outcome, thrown, request, posts, timer, raf>>
chartVars == <<confidenceChart, keywordChart, liveConfidence, liveKeyword>>
storageVars == <<slot, events, removes, late>>
lifeVars == <<panelOpen, openPending>>
relayVars == <<activated, mouseupListeners, clickListeners, sent, gestures>>
calcVars == <<analysisData, formattedData, statusClass, chartMax,
              backgroundColor>>
panelVars == <<build, splash, navVars, selectionMode, stimuli, contentDisplay,
               resultContent, retryVisible, buttonVars, attemptVars,
               chartVars, log, storageVars, lifeVars>>

Visible == {p \in Pages : ~hidden[p]}

\* ------------------------------------------------------------ navigation
ActiveIndex(pageId) ==
  IF pageId = "page-result" THEN 3
  ELSE IF pageId = "page-preview" THEN 2
  ELSE IF pageId = "page-select" THEN 1
  ELSE 0

\* an indicator update that marks the new item without clearing the others
UpdateNavIndicatorKeepsActive(pageId) ==
  [n \in Navs |->
     IF ActiveIndex(pageId) > 0 /\ NumItems >= ActiveIndex(pageId)
       THEN navActive[n] \cup {ActiveIndex(pageId)}
       ELSE navActive[n]]

\* updateNavIndicator(activePage): in every bar clear "active", then mark
\* item activeIndex when activeIndex > 0 and the bar has that many items
UpdateNavIndicator(pageId) ==
  [n \in Navs |->
     IF ActiveIndex(pageId) > 0 /\ NumItems >= ActiveIndex(pageId)
       THEN {ActiveIndex(pageId)}
       ELSE {}]

\* navigateTo without the pages.forEach that hides every page first
HiddenAfterNavigateKeepsOthers(pageId) ==
  [e \in Elements |-> IF e = pageId THEN FALSE ELSE hidden[e]]

\* navigateTo(pageId): the class list of every element afterwards
HiddenAfterNavigate(pageId) ==
  [e \in Elements |->
     IF e = pageId THEN FALSE
     ELSE IF e \in Pages THEN TRUE
     ELSE hidden[e]]

NavAfterNavigate(pageId) ==
  IF pageId \in Elements THEN UpdateNavIndicator(pageId) ELSE navActive

NavigateTo(pageId) ==
  /\ hidden' = HiddenAfterNavigate(pageId)
  /\ navActive' = NavAfterNavigate(pageId)

\* --------------------------------------------------------------- preview
\* displayContentForPreview(content): the first child of #content-display
DisplayContentForPreview(content) ==
  IF content.type = "text" THEN [tag |-> "BLOCKQUOTE", data |-> content.data]
  ELSE IF content.type = "image"
    THEN [tag |-> "DIV.preview-image-wrapper", data |-> content.data]
  ELSE NoNode

\* img.src read back: the URL the src attribute resolves to.  An empty
\* attribute reads as "" or as the document's own URL, depending on the
\* engine; both outcomes are kept.
ImgSrcRead(attr) == IF attr = "" THEN {"", PanelUrl} ELSE {attr}

\* the contentToAnalyze objects the analyze handler can derive from the
\* preview markup
DetectContent(node) ==
  IF node.tag = "BLOCKQUOTE" THEN {[type |-> "text", value |-> node.data]}
  ELSE IF node.tag = "DIV.preview-image-wrapper"
    THEN {[type |-> "image", value |-> v] : v \in ImgSrcRead(node.data)}
  ELSE {NoRequest}

RestoredLabel == IF build = "sidepanel" THEN "Start Analyze" ELSE "Analyze Now"

\* ------------------------------------------------------------------ init
\* DOMContentLoaded: the globals are null, nothing is previewed or analysed,
\* the slot is empty.  The panel starts in the Loading pseudo-state: the main
\* container is hidden, and of the pages only Intro does not carry "hidden";
\* each navigation bar has the item of its own data-active step marked.
Fresh ==
  /\ build \in Builds
  /\ splash = TRUE
  /\ hidden = [e \in Elements |-> e # "page-intro"]
  /\ navActive = [n \in Navs |-> {n}]
  /\ selectionMode = FALSE
  /\ stimuli = 0
  /\ contentDisplay = NoNode
  /\ resultContent = [kind |-> "markup", attempt |-> 0]
  /\ retryVisible = TRUE
  /\ analyzeDisabled = FALSE
  /\ btnText = "markup"
  /\ spinnerHidden = TRUE
  /\ pc = [a \in Attempts |-> "idle"]
  /\ outcome = [a \in Attempts |-> "none"]
  /\ thrown = [a \in Attempts |-> "none"]
  /\ request = NoRequest
  /\ posts = [a \in Attempts |-> 0]
  /\ timer = [a \in Attempts |-> FALSE]
  /\ raf = [a \in Attempts |-> FALSE]
  /\ confidenceChart = 0
  /\ keywordChart = 0
  /\ liveConfidence = {}
  /\ liveKeyword = {}
  /\ log = [m \in Messages |-> 0]
  /\ slot = Absent
  /\ events = <<>>
  /\ removes = 0
  /\ late = 0
  /\ openPending = FALSE

\* content_selector.js has not been activated on the page
RelayIdle ==
  /\ activated = 0
  /\ mouseupListeners = {}
  /\ clickListeners = {}
  /\ sent = <<>>
  /\ gestures = 0

\* no response has been formatted and no chart rendered
CalcIdle ==
  /\ analysisData = [fakeNews |-> 0, realNews |-> 0]
  /\ formattedData = NoData
  /\ statusClass = "none"
  /\ chartMax = NaN
  /\ backgroundColor = <<>>

\* a panel session: the panel has just been opened
Init == Fresh /\ panelOpen = TRUE /\ RelayIdle /\ CalcIdle

\* the browser with the extension installed and the panel not opened yet
LifeInit == Fresh /\ panelOpen = FALSE /\ RelayIdle /\ CalcIdle

\* ---------------------------------------------------------------- splash
\* the loading sequence: three nested setTimeout callbacks.  The first two
\* touch only the logo and the opacity of the loading container; the last
\* one swaps the containers and calls navigateTo('page-intro').
SplashDone ==
  /\ panelOpen
  /\ splash
  /\ splash' = FALSE
  /\ hidden' = [HiddenAfterNavigate("page-intro")
                  EXCEPT !["main-container"] = FALSE]
  /\ navActive' = NavAfterNavigate("page-intro")
  /\ UNCHANGED <<calcVars, relayVars, lifeVars,
                 build, selectionMode, stimuli, contentDisplay,
                 resultContent, retryVisible, buttonVars, attemptVars,
                 chartVars, log, storageVars>>

\* ----------------------------------------------------------- user clicks
\* the user can click only what is displayed
PanelShown == ~hidden["main-container"]

UserClick ==
  /\ PanelShown
  /\ stimuli < MaxStimuli
  /\ stimuli' = stimuli + 1

\* click on a .nav-button, .back-icon-btn or navigation link whose
\* data-target is target
NavClick(target) ==
  /\ UserClick
  /\ NavigateTo(target)
  /\ UNCHANGED <<calcVars, relayVars, lifeVars,
                 build, splash, selectionMode, contentDisplay,
                 resultContent, retryVisible, buttonVars, attemptVars,
                 chartVars, log, storageVars>>

\* click on #select-content-btn: the panel enters selection mode (the
\* script injection and the ACTIVATE_SELECTION_MODE message act on the page,
\* not on the panel)
SelectContentClick ==
  /\ UserClick
  /\ selectionMode' = TRUE
  /\ UNCHANGED <<calcVars, relayVars, lifeVars,
                 build, splash, navVars, contentDisplay, resultContent,
                 retryVisible, buttonVars, attemptVars, chartVars, log,
                 storageVars>>

\* ---------------------------------------------------------------- analyze
IdleAttempts == {a \in Attempts : pc[a] = "idle"}
InFlight == {a \in Attempts : pc[a] \in {"fetch", "json"}}

\* the handler with the "analyzing" user-interface update placed before the
\* validation instead of after it
AnalyzeAbortBusy ==
  /\ log' = [log EXCEPT ![NoContentMsg] = @ + 1]
  /\ analyzeDisabled' = TRUE
  /\ btnText' = "Analyzing"
  /\ spinnerHidden' = FALSE
  /\ UNCHANGED <<calcVars, relayVars, lifeVars,
                 build, splash, navVars, selectionMode,
                 contentDisplay, resultContent, retryVisible,
                 attemptVars, chartVars, storageVars>>

\* click handler, validation failed: console.error and return
AnalyzeAbort ==
  /\ log' = [log EXCEPT ![NoContentMsg] = @ + 1]
  /\ UNCHANGED <<calcVars, relayVars, lifeVars,
                 build, splash, navVars, selectionMode,
                 contentDisplay, resultContent, retryVisible, buttonVars,
                 attemptVars, chartVars, storageVars>>

\* the "analyzing" state of the trigger control (sidepanel.js only)
TriggerBusy ==
  IF build = "sidepanel"
    THEN /\ analyzeDisabled' = TRUE
         /\ btnText' = "Analyzing"
         /\ spinnerHidden' = FALSE
    ELSE UNCHANGED buttonVars

\* the fetch call: one POST of the JSON-encoded content
IssuePost(a, c) ==
  /\ posts' = [posts EXCEPT ![a] = @ + 1]
  /\ request' = c
  /\ pc' = [pc EXCEPT ![a] = "fetch"]

\* click handler, validation passed, up to the first await
AnalyzeStart(a, c) ==
  /\ TriggerBusy
  /\ IF build = "sidepanel"
       THEN NavigateTo("page-result") /\ UNCHANGED retryVisible
       ELSE retryVisible' = FALSE /\ UNCHANGED navVars
  /\ timer' = [timer EXCEPT ![a] = TRUE]
  /\ IssuePost(a, c)
  /\ UNCHANGED <<calcVars, relayVars, lifeVars,
                 build, splash, selectionMode, contentDisplay,
                 resultContent, outcome, thrown, raf, chartVars, log,
                 storageVars>>

\* click on #analyze-btn (a disabled button dispatches no click)
AnalyzeClick ==
  /\ UserClick
  /\ ~analyzeDisabled
  /\ \E c \in DetectContent(contentDisplay) :
       \/ c.value = "" /\ AnalyzeAbort
       \/ /\ c.value # ""
          /\ IdleAttempts # {}
          /\ AnalyzeStart(CHOOSE a \in IdleAttempts :
                            \A b \in IdleAttempts : a <= b, c)

\* setTimeout(..., 100): the "Analyzing..." placeholder
PlaceholderTimer(a) ==
  /\ timer[a]
  /\ timer' = [timer EXCEPT ![a] = FALSE]
  /\ resultContent' = [kind |-> "placeholder", attempt |-> a]
  /\ retryVisible' = IF build = "sidepanel" THEN FALSE ELSE retryVisible
  /\ UNCHANGED <<calcVars, relayVars, lifeVars,
                 build, splash, navVars, selectionMode, stimuli,
                 contentDisplay, buttonVars, pc, outcome, thrown, request,
                 posts, raf,
                 chartVars, log, storageVars>>

\* a finally block that forgets to re-enable the button
FinallyLeavesDisabled ==
  /\ btnText' = RestoredLabel
  /\ spinnerHidden' = TRUE
  /\ UNCHANGED analyzeDisabled

\* finally block
Finally ==
  /\ analyzeDisabled' = FALSE
  /\ btnText' = RestoredLabel
  /\ spinnerHidden' = TRUE

\* a catch block that forgets to show the retry control
CatchErrorNoRetry(a) ==
  /\ log' = [log EXCEPT ![ErrorMsg] = @ + 1]
  /\ resultContent' = [kind |-> "error", attempt |-> a]
  /\ UNCHANGED retryVisible

\* catch block
CatchError(a) ==
  /\ log' = [log EXCEPT ![ErrorMsg] = @ + 1]
  /\ resultContent' = [kind |-> "error", attempt |-> a]
  /\ retryVisible' = TRUE

\* a catch block that retries the request instead of giving up
HandleFailureRetry(a) ==
  /\ posts' = [posts EXCEPT ![a] = @ + 1]
  /\ pc' = [pc EXCEPT ![a] = "fetch"]
  /\ log' = [log EXCEPT ![ErrorMsg] = @ + 1]
  /\ UNCHANGED <<calcVars, relayVars, lifeVars,
                 build, splash, navVars, selectionMode, stimuli,
                 contentDisplay, resultContent, retryVisible, buttonVars,
                 outcome, request, timer, raf, chartVars, storageVars>>

\* an exception inside try: catch, finally, and the handler returns
HandleFailure(a) ==
  /\ pc' = [pc EXCEPT ![a] = "done"]
  /\ outcome' = [outcome EXCEPT ![a] = "failed"]
  /\ CatchError(a)
  /\ Finally
  /\ UNCHANGED <<calcVars, relayVars, lifeVars,
                 build, splash, navVars, selectionMode, stimuli,
                 contentDisplay, request, posts, timer, raf, chartVars,
                 storageVars>>

FetchResults == {"reject", "status", "ok"}
\* await fetch(...) settles: rejected by the transport, answered with a
\* non-success status, or answered with response.ok
FetchSettle(a, r) ==
  /\ pc[a] = "fetch"
  /\ IF r = "ok"
       THEN /\ pc' = [pc EXCEPT ![a] = "json"]
            /\ UNCHANGED <<calcVars, relayVars, lifeVars, build, splash,
                           navVars, selectionMode, stimuli, contentDisplay,
                           resultContent, retryVisible, buttonVars, outcome,
                           thrown, request, posts, timer, raf, chartVars,
                           log, storageVars>>
       ELSE /\ HandleFailure(a)
            /\ thrown' = [thrown EXCEPT ![a] = r]

JsonResults == {"syntax", "noConfidence", "noWords", "ok"}

\* a handler that renders whatever JSON it is given
JsonSettleLenient(a, r) ==
  /\ pc[a] = "json"
  /\ IF r # "syntax"
       THEN /\ pc' = [pc EXCEPT ![a] = "done"]
            /\ outcome' = [outcome EXCEPT ![a] = "ok"]
            /\ raf' = [raf EXCEPT ![a] = TRUE]
            /\ Finally
            /\ UNCHANGED <<calcVars, relayVars, lifeVars, build, splash,
                           navVars, selectionMode, stimuli, contentDisplay,
                           resultContent, retryVisible, thrown, request,
                           posts, timer, chartVars, log, storageVars>>
       ELSE /\ HandleFailure(a)
            /\ thrown' = [thrown EXCEPT ![a] = r]

\* await response.json() settles: the body is not JSON (SyntaxError), the
\* JSON lacks confidence or lacks words (building formattedData throws a
\* TypeError before requestAnimationFrame is reached), or it is a full
\* AnalysisResult
JsonSettle(a, r) ==
  /\ pc[a] = "json"
  /\ IF r = "ok"
       THEN /\ pc' = [pc EXCEPT ![a] = "done"]
            /\ outcome' = [outcome EXCEPT ![a] = "ok"]
            /\ raf' = [raf EXCEPT ![a] = TRUE]
            /\ Finally
            /\ UNCHANGED <<calcVars, relayVars, lifeVars, build, splash,
                           navVars, selectionMode, stimuli, contentDisplay,
                           resultContent, retryVisible, thrown, request,
                           posts, timer, chartVars, log, storageVars>>
       ELSE /\ HandleFailure(a)
            /\ thrown' = [thrown EXCEPT ![a] = r]

\* a chart creation that leaves the instances of the previous render alone
NewChartsNoDestroy(a) ==
  /\ confidenceChart' = a
  /\ keywordChart' = a
  /\ liveConfidence' = liveConfidence \cup {a}
  /\ liveKeyword' = liveKeyword \cup {a}

\* the Chart instances of renderResultCharts: the instances the two globals
\* hold (if any) are destroyed, then each global is given a new Chart
NewCharts(a) ==
  /\ confidenceChart' = a
  /\ keywordChart' = a
  /\ liveConfidence' = (liveConfidence \ {confidenceChart}) \cup {a}
  /\ liveKeyword' = (liveKeyword \ {keywordChart}) \cup {a}

\* a render callback that forgets to show the retry control
RenderFrameNoRetry(a) ==
  /\ raf[a]
  /\ raf' = [raf EXCEPT ![a] = FALSE]
  /\ NewCharts(a)
  /\ resultContent' = [kind |-> "charts", attempt |-> a]
  /\ UNCHANGED <<calcVars, relayVars, lifeVars,
                 build, splash, navVars, selectionMode, stimuli,
                 contentDisplay, retryVisible, buttonVars, pc, outcome,
                 thrown, request, posts, timer, log, storageVars>>

\* requestAnimationFrame callback: renderResultCharts, then show the retry
\* control
RenderFrame(a) ==
  /\ raf[a]
  /\ raf' = [raf EXCEPT ![a] = FALSE]
  /\ NewCharts(a)
  /\ resultContent' = [kind |-> "charts", attempt |-> a]
  /\ retryVisible' = TRUE
  /\ UNCHANGED <<calcVars, relayVars, lifeVars,
                 build, splash, navVars, selectionMode, stimuli,
                 contentDisplay, buttonVars, pc, outcome, thrown, request,
                 posts, timer, log, storageVars>>

\* ---------------------------------------------------------------- storage
\* chrome.storage.local.set({contentToAnalyze: value}); onChanged fires only
\* when the stored value changes, and reaches only a listener that exists:
\* the panel registers its listener when its document loads
StorageSet(value) ==
  /\ stimuli < MaxStimuli
  /\ stimuli' = stimuli + 1
  /\ slot' = value
  /\ events' = IF value # slot /\ panelOpen THEN Append(events, value)
                ELSE events
  /\ late' = IF late = 0 /\ removes > 0 /\ value # slot /\ panelOpen
              THEN Len(events) + 1 ELSE late
  /\ UNCHANGED removes

\* a menu item offered on every right-click
MenuOfferedAnywhere(selectionText, isImage) == TRUE

\* contexts: ["selection", "image"]: the menu item is offered on a
\* right-click with text selected or on an image
MenuOffered(selectionText, isImage) == selectionText # "" \/ isImage

\* let dataToAnalyze = {} and the two branches that fill it
DataToAnalyze(selectionText, isImage, srcUrl) ==
  IF selectionText # "" THEN Content("text", selectionText)
  ELSE IF isImage THEN Content("image", srcUrl)
  ELSE EmptyObject

\* background.js contextMenus.onClicked.  The callback of the write calls
\* chrome.sidePanel.open, which changes nothing when the panel is open
\* already.
ContextMenuClick(selectionText, isImage, srcUrl) ==
  /\ MenuOffered(selectionText, isImage)
  /\ StorageSet(DataToAnalyze(selectionText, isImage, srcUrl))
  /\ openPending' = (openPending \/ ~panelOpen)
  /\ UNCHANGED <<calcVars, relayVars, panelOpen,
                 build, splash, navVars, selectionMode, contentDisplay,
                 resultContent, retryVisible, buttonVars, attemptVars,
                 chartVars, log>>

\* background.js runtime.onMessage for CONTENT_SELECTED.  The Relay is
\* activated from the panel, and the panel is not closed again here, so a
\* report finds the panel open.
ContentSelectedMessage(payload) ==
  /\ panelOpen
  /\ StorageSet(payload)
  /\ UNCHANGED <<calcVars, relayVars, lifeVars,
                 build, splash, navVars, selectionMode, contentDisplay,
                 resultContent, retryVisible, buttonVars, attemptVars,
                 chartVars, log>>

\* a removal that also discards the change events not yet delivered
StorageRemoveDropsEvents ==
  /\ removes > 0
  /\ removes' = removes - 1
  /\ slot' = Absent
  /\ events' = IF slot # Absent THEN <<Absent>> ELSE <<>>
  /\ UNCHANGED <<calcVars, relayVars, late, lifeVars,
                 build, splash, navVars, selectionMode, stimuli,
                 contentDisplay, resultContent, retryVisible, buttonVars,
                 attemptVars, chartVars, log>>

\* the storage backend applies a remove('contentToAnalyze') call
StorageRemove ==
  /\ removes > 0
  /\ removes' = removes - 1
  /\ slot' = Absent
  /\ events' = IF slot # Absent THEN Append(events, Absent) ELSE events
  /\ UNCHANGED <<calcVars, relayVars, late, lifeVars,
                 build, splash, navVars, selectionMode, stimuli,
                 contentDisplay, resultContent, retryVisible, buttonVars,
                 attemptVars, chartVars, log>>

\* the history variable when the head of events is delivered
LateAfterDelivery ==
  IF late = 1 THEN (IF slot = Absent THEN -2 ELSE -1)
  ELSE IF late > 1 THEN late - 1
  ELSE late

\* a listener that does not leave the Result page while an analysis is in
\* flight
StorageChangedStaysOnPage ==
  /\ events # <<>>
  /\ events' = Tail(events)
  /\ IF Head(events) # Absent
       THEN /\ selectionMode' = FALSE
            /\ contentDisplay' = DisplayContentForPreview(Head(events))
            /\ IF InFlight = {} THEN NavigateTo("page-preview")
                                ELSE UNCHANGED navVars
            /\ removes' = removes + 1
       ELSE UNCHANGED <<selectionMode, contentDisplay, navVars, removes>>
  /\ UNCHANGED <<calcVars, relayVars, lifeVars,
                 build, splash, stimuli, resultContent, retryVisible,
                 buttonVars, attemptVars, chartVars, log, slot>>
  /\ late' = LateAfterDelivery

\* a listener without the if (newContent) test
StorageChangedNoGuard ==
  /\ events # <<>>
  /\ events' = Tail(events)
  /\ selectionMode' = FALSE
  /\ contentDisplay' = DisplayContentForPreview(Head(events))
  /\ NavigateTo("page-preview")
  /\ removes' = removes + 1
  /\ UNCHANGED <<calcVars, relayVars, lifeVars,
                 build, splash, stimuli, resultContent, retryVisible,
                 buttonVars, attemptVars, chartVars, log, slot>>
  /\ late' = LateAfterDelivery

\* the panel's chrome.storage.onChanged listener, for the next change of
\* contentToAnalyze in the "local" namespace
StorageChanged ==
  /\ events # <<>>
  /\ events' = Tail(events)
  /\ IF Head(events) # Absent
       THEN /\ selectionMode' = FALSE
            /\ contentDisplay' = DisplayContentForPreview(Head(events))
            /\ NavigateTo("page-preview")
            /\ removes' = removes + 1
       ELSE UNCHANGED <<selectionMode, contentDisplay, navVars, removes>>
  /\ UNCHANGED <<calcVars, relayVars, lifeVars,
                 build, splash, stimuli, resultContent, retryVisible,
                 buttonVars, attemptVars, chartVars, log, slot>>
  /\ late' = LateAfterDelivery

\* ------------------------------------------------------------- lifecycle
\* the callback of the context action's storage write, for a closed panel:
\* chrome.sidePanel.open({tabId}) loads the panel document, which registers
\* the storage listener and starts the loading sequence without reading the
\* slot.
SidePanelOpen ==
  /\ openPending
  /\ ~panelOpen
  /\ openPending' = FALSE
  /\ panelOpen' = TRUE
  /\ UNCHANGED <<calcVars, relayVars,
                 build, splash, navVars, selectionMode, stimuli,
                 contentDisplay, resultContent, retryVisible, buttonVars,
                 attemptVars, chartVars, log, storageVars>>

\* ------------------------------------------------------------------- next
Next ==
  \/ SplashDone
  \/ \E t \in NavTargets : NavClick(t)
  \/ SelectContentClick
  \/ AnalyzeClick
  \/ \E a \in Attempts : PlaceholderTimer(a)
  \/ \E a \in Attempts, r \in FetchResults : FetchSettle(a, r)
  \/ \E a \in Attempts, r \in JsonResults : JsonSettle(a, r)
  \/ \E a \in Attempts : RenderFrame(a)
  \/ \E s \in Texts \cup {""}, i \in BOOLEAN, u \in Urls :
       ContextMenuClick(s, i, u)
  \/ \E p \in RelayPayloads : ContentSelectedMessage(p)
  \/ StorageRemove
  \/ StorageChanged

Spec == Init /\ [][Next]_vars

LifeNext ==
  \/ Next
  \/ SidePanelOpen

\* every callback the browser has scheduled runs eventually: the opening of
\* the panel, the loading sequence, storage events and removals, timers,
\* animation frames and the settling of a request.  User gestures and
\* Coordinator writes are under no such obligation.
Fairness ==
  /\ WF_vars(SidePanelOpen)
  /\ WF_vars(SplashDone)
  /\ WF_vars(StorageChanged)
  /\ WF_vars(StorageRemove)
  /\ \A a \in Attempts :
       /\ WF_vars(PlaceholderTimer(a))
       /\ WF_vars(RenderFrame(a))
       /\ WF_vars(\E r \in FetchResults : FetchSettle(a, r))
       /\ WF_vars(\E r \in JsonResults : JsonSettle(a, r))

\* the extension from a closed panel on, under fair scheduling
LifeSpec == LifeInit /\ [][LifeNext]_vars /\ Fairness

\* -------------------------------------------------------- selection relay
\* content_selector.js on the page.  A selection is the string
\* window.getSelection().toString() returns, as a sequence of characters.
Chars == {" ", "a"}
Selections == UNION {[1..n -> Chars] : n \in 0..MaxSelLen}
Targets == {[tag |-> "IMG", src |-> u] : u \in Urls \cup {""}}
             \cup {[tag |-> "DIV", src |-> ""]}

RECURSIVE TrimStart(_)
TrimStart(sel) ==
  IF sel # <<>> /\ Head(sel) = " " THEN TrimStart(Tail(sel)) ELSE sel

RECURSIVE TrimEnd(_)
TrimEnd(sel) ==
  IF sel # <<>> /\ sel[Len(sel)] = " "
    THEN TrimEnd(SubSeq(sel, 1, Len(sel) - 1))
    ELSE sel

\* String.prototype.trim
Trim(sel) == TrimEnd(TrimStart(sel))

\* the messages the activations in ids send, in listener registration order
RECURSIVE Reports(_, _)
Reports(ids, payload) ==
  IF ids = {} THEN <<>>
  ELSE LET a == CHOOSE x \in ids : \A y \in ids : x <= y
       IN <<[by |-> a, payload |-> payload]>> \o Reports(ids \ {a}, payload)

\* a cleanup that forgets the click listener
CleanupKeepsClick(ids) ==
  [mouseup |-> mouseupListeners \ ids, click |-> clickListeners]

\* cleanup() of every activation in ids: both of its listeners are removed
Cleanup(ids) ==
  [mouseup |-> mouseupListeners \ ids, click |-> clickListeners \ ids]

\* runtime.onMessage ACTIVATE_SELECTION_MODE: activateSelector() attaches a
\* new pair of listeners
ActivateSelector ==
  /\ activated < MaxActivations
  /\ activated' = activated + 1
  /\ mouseupListeners' = mouseupListeners \cup {activated + 1}
  /\ clickListeners' = clickListeners \cup {activated + 1}
  /\ UNCHANGED <<sent, gestures, panelVars, calcVars>>

\* the activations whose textSelectHandler reports on a mouseup with
\* selection sel
TextReporters(sel) == IF Trim(sel) # <<>> THEN mouseupListeners ELSE {}

\* the activations whose imageClickHandler reports a click on target, given
\* the click listeners still attached
ImageReporters(target, attached) ==
  IF target.tag = "IMG" THEN attached ELSE {}

\* one mouse gesture on the page: the mouseup event (with the selection it
\* leaves) runs every attached textSelectHandler, then the click event on
\* target runs every imageClickHandler still attached
Gesture(sel, target) ==
  /\ gestures < MaxGestures
  /\ gestures' = gestures + 1
  /\ LET afterMouseup == Cleanup(TextReporters(sel))
         clickers == ImageReporters(target, afterMouseup.click)
     IN /\ mouseupListeners' = afterMouseup.mouseup \ clickers
        /\ clickListeners' = afterMouseup.click \ clickers
        /\ sent' = sent
                   \o Reports(TextReporters(sel), Content("text", Trim(sel)))
                   \o Reports(clickers, Content("image", target.src))
  /\ UNCHANGED <<activated, panelVars, calcVars>>

RelayNext ==
  \/ ActivateSelector
  \/ \E sel \in Selections, target \in Targets : Gesture(sel, target)

\* the page with the content script injected
RelaySpec == Init /\ [][RelayNext]_vars

\* ------------------------------------------------------- chart arithmetic
\* Math.round(parseFloat(c) * 100) for c given in thousandths: the nearest
\* integer, a half rounding up
Round100Truncating(c) == c \div 10

Round100(c) == (c + 5) \div 10

\* formattedData as the analyze handler builds it
FormattedData(fakeNews, realNews, scores) ==
  [confidence |-> [fake |-> Round100(fakeNews), neutral |-> 0,
                   real |-> Round100(realNews)],
   keywords |-> scores, set |-> TRUE]

\* x >= y for the quotients x = a[1] / a[2] and y = b[1] / b[2] (a[2], b[2]
\* positive)
QuotGeq(a, b) == a[1] * b[2] >= b[1] * a[2]
QuotGt(a, b) == a[1] * b[2] > b[1] * a[2]

\* a status that gives a tie to fake-news
StatusClassStrict(confidence) ==
  LET rawReal == <<confidence.real, 100>>
      rawFake == <<confidence.fake, 100>>
  IN IF QuotGt(rawReal, rawFake) THEN "real-news" ELSE "fake-news"

\* const statusClass = rawReal >= rawFake ? 'real-news' : 'fake-news'
StatusClass(confidence) ==
  LET rawReal == <<confidence.real, 100>>
      rawFake == <<confidence.fake, 100>>
  IN IF QuotGeq(rawReal, rawFake) THEN "real-news" ELSE "fake-news"

\* x > y on doubles: false when either side is NaN
Gt(x, y) == x.k = "fin" /\ y.k = "fin" /\ x.v > y.v
Lt(x, y) == x.k = "fin" /\ y.k = "fin" /\ x.v < y.v

\* Math.abs
MathAbs(x) == IF x.k = "fin" THEN Fin(IF x.v < 0 THEN -x.v ELSE x.v) ELSE NaN

\* Math.max(...xs): -Infinity without arguments, NaN if any argument is NaN
MathMax(xs) ==
  IF xs = <<>> THEN NegInfinity
  ELSE IF \E i \in 1..Len(xs) : xs[i].k = "nan" THEN NaN
  ELSE Fin(CHOOSE m \in {xs[i].v : i \in 1..Len(xs)} :
             \A i \in 1..Len(xs) : xs[i].v <= m)

\* Math.pow(10, Math.floor(Math.log10(m))) for a finite m > 0: the largest
\* power of ten that is at most m
RECURSIVE PowerBelow(_, _)
PowerBelow(m, p) == IF p * 10 <= m THEN PowerBelow(m, p * 10) ELSE p
Magnitude(m) == PowerBelow(m, 1)

\* Math.ceil(m / magnitude) * magnitude
CeilTo(m, magnitude) == ((m + magnitude - 1) \div magnitude) * magnitude

\* the chartMax computation.  For maxAbsScore 0 the chain is
\* log10(0) = -Infinity, pow(10, -Infinity) = 0, 0 / 0 = NaN; for -Infinity
\* (no keywords) and NaN, log10 is NaN: the product is NaN each time, and
\* NaN === 0 is false.
ChartMax(scores) ==
  LET maxAbsScore == MathMax([i \in 1..Len(scores) |-> MathAbs(scores[i])])
      scaled == IF Gt(maxAbsScore, Fin(Tenth)) THEN Fin(One)
                ELSE IF Gt(maxAbsScore, Fin(0))
                  THEN Fin(CeilTo(maxAbsScore.v, Magnitude(maxAbsScore.v)))
                ELSE NaN
  IN IF scaled = Fin(0) THEN Fin(Hundredth) ELSE scaled

\* a colouring that counts the threshold itself as positive or negative
BarColorInclusive(k) ==
  LET score == IF k.k = "nan" THEN Fin(0) ELSE k
  IN IF ~Lt(score, Fin(WORD_THRESHOLD)) THEN "#27ae60"
     ELSE IF ~Gt(score, Fin(-WORD_THRESHOLD)) THEN "#c0392b"
     ELSE "#f39c12"

\* the colour of one bar: const score = Number(k.score) || 0, then the two
\* threshold tests
BarColor(k) ==
  LET score == IF k.k = "nan" THEN Fin(0) ELSE k
  IN IF Gt(score, Fin(WORD_THRESHOLD)) THEN "#27ae60"
     ELSE IF Lt(score, Fin(-WORD_THRESHOLD)) THEN "#c0392b"
     ELSE "#f39c12"

\* the try block after response.json(): formattedData is built from a
\* response that carries confidence and words
FormatData(fakeNews, realNews, scores) ==
  /\ analysisData' = [fakeNews |-> fakeNews, realNews |-> realNews]
  /\ formattedData' = FormattedData(fakeNews, realNews, scores)
  /\ statusClass' = "none"
  /\ chartMax' = NaN
  /\ backgroundColor' = <<>>
  /\ UNCHANGED <<panelVars, relayVars>>

\* renderResultCharts(formattedData)
RenderResultCharts ==
  /\ formattedData.set
  /\ statusClass = "none"
  /\ statusClass' = StatusClass(formattedData.confidence)
  /\ chartMax' = ChartMax(formattedData.keywords)
  /\ backgroundColor' = [i \in 1..Len(formattedData.keywords) |->
                           BarColor(formattedData.keywords[i])]
  /\ UNCHANGED <<analysisData, formattedData, panelVars, relayVars>>

\* one response arrives
ResponseArrives ==
  /\ ~formattedData.set
  /\ \E f \in ConfidenceInputs, r \in ConfidenceInputs, k \in KeywordInputs :
       FormatData(f, r, k)

CalcNext ==
  \/ ResponseArrives
  \/ RenderResultCharts

\* the chart computations applied once to every response of the input sets
CalcSpec == Init /\ [][CalcNext]_vars

\* ================================================================= claims
InFlightPcs == {"fetch", "json"}

\* node is the preview markup of content
Shows(node, content) ==
  \/ /\ content.type = "text"
     /\ node = [tag |-> "BLOCKQUOTE", data |-> content.data]
  \/ /\ content.type = "image"
     /\ node = [tag |-> "DIV.preview-image-wrapper", data |-> content.data]

\* C1: after navigateTo(p) for an existing page p, whoever calls it (a
\* navigation click, the end of the loading sequence, the storage listener,
\* the analyze handler of sidepanel.js) and whatever was visible before,
\* exactly one page is visible and it is p.
C1_NavigateShowsExactlyTarget ==
  [][ /\ \A p \in Pages : NavClick(p) => Visible' = {p}
      /\ SplashDone => Visible' = {"page-intro"}
      /\ (events # <<>> /\ Head(events) # Absent /\ StorageChanged)
           => Visible' = {"page-preview"}
      /\ \A a \in Attempts : \A c \in DetectContent(contentDisplay) :
           (build = "sidepanel" /\ AnalyzeStart(a, c))
             => Visible' = {"page-result"} ]_vars

\* Result reached by a navigation click after Preview had been shown for an
\* arrived content (part_000 shows Result only through navigateTo clicks)
C1_Witness ==
  /\ build = "part_000"
  /\ contentDisplay # NoNode
  /\ Visible = {"page-result"}

\* C2: navigateTo(x) for an id x that no element carries is a no-op: the
\* page visible before is still visible and the navigation indicator is
\* unchanged.
C2_UnknownIdIsNoOp ==
  [][ NavClick(UnknownId) => (Visible' = Visible /\ navActive' = navActive)
    ]_vars

\* C3: when the storage listener observes a non-empty contentToAnalyze value,
\* then on every page and with or without an analysis in flight it clears
\* selection mode, shows the content in the preview area and makes Preview
\* the visible page.
C3_ArrivalForcesPreview ==
  [][ (events # <<>> /\ Head(events) # Absent /\ StorageChanged)
        => /\ ~selectionMode'
           /\ Shows(contentDisplay', Head(events))
           /\ Visible' = {"page-preview"} ]_vars

\* an image arrived while the request for the earlier text was in flight on
\* the Result page: three stimuli (write, analyze click, write), so no
\* navigation click can have shown Preview
C3_Witness ==
  /\ build = "sidepanel"
  /\ stimuli = 3
  /\ InFlight # {}
  /\ request.type = "text"
  /\ contentDisplay.tag = "DIV.preview-image-wrapper"
  /\ Visible = {"page-preview"}
  /\ ~selectionMode

\* C4: a written value is handled once: the listener that renders a value
\* issues the removal of the slot in the same run; the change event of a
\* removal (newValue absent) updates no preview, navigates nowhere and
\* writes nothing to storage; and once every event is delivered and every
\* removal applied the slot is empty.
C4_SlotConsumedOnce ==
  [][ /\ (events # <<>> /\ Head(events) # Absent /\ StorageChanged)
           => removes' = removes + 1
      /\ (events # <<>> /\ Head(events) = Absent /\ StorageChanged)
           => UNCHANGED <<contentDisplay, hidden, navActive, selectionMode,
                          removes, slot>>
      /\ (events' = <<>> /\ removes' = 0) => slot' = Absent ]_vars

\* a value was rendered, its removal applied and the removal's event
\* delivered
C4_Witness ==
  /\ contentDisplay # NoNode
  /\ events = <<>>
  /\ removes = 0
  /\ slot = Absent
  /\ stimuli = 1

\* C5: an analyze click on a preview area without content, or with content
\* whose value is empty, aborts: console.error is written and no POST is
\* issued, the trigger control keeps its state and stays enabled, and the
\* visible page and the result area are unchanged.
C5_EmptyContentAborts ==
  [][ /\ (AnalyzeClick /\ \A c \in DetectContent(contentDisplay) : c.value = "")
           => log'[NoContentMsg] = log[NoContentMsg] + 1
      /\ log'[NoContentMsg] # log[NoContentMsg]
           => /\ \E c \in DetectContent(contentDisplay) : c.value = ""
              /\ posts' = posts
              /\ pc' = pc
              /\ ~analyzeDisabled'
              /\ UNCHANGED <<analyzeDisabled, btnText, spinnerHidden>>
              /\ Visible' = Visible
              /\ resultContent' = resultContent ]_vars

\* an abort with an image of empty src in the preview area
C5_Witness ==
  /\ log[NoContentMsg] > 0
  /\ contentDisplay = [tag |-> "DIV.preview-image-wrapper", data |-> ""]
  /\ \A a \in Attempts : posts[a] = 0
  /\ ~analyzeDisabled

\* C6: while the request of a validated analyze trigger is outstanding the
\* trigger control is disabled, so at most one request is in flight.
C6_SingleFlight ==
  /\ InFlight # {} => analyzeDisabled
  /\ Cardinality(InFlight) <= 1

\* every attempt that has started issued exactly one POST
OnePostEach ==
  \A a \in Attempts : posts[a] = IF pc[a] = "idle" THEN 0 ELSE 1

\* C7: each validated analyze trigger issues exactly one POST, and a POST is
\* issued only by a user's analyze click: a failed attempt causes no further
\* request.
C7_OnePostNoRetry ==
  [][ /\ OnePostEach
      /\ OnePostEach'
      /\ posts' # posts
           => /\ stimuli' = stimuli + 1
              /\ \E a \in Attempts :
                   pc[a] = "idle" /\ posts' = [posts EXCEPT ![a] = 1]
      /\ \A a \in Attempts : outcome[a] = "failed" => pc'[a] = "done" ]_vars

\* one attempt has failed and nothing is in flight
C7_Witness ==
  /\ \E a \in Attempts : outcome[a] = "failed" /\ posts[a] = 1
  /\ InFlight = {}

C9_TriggerReenabled ==
  [][ \A a \in Attempts :
        (pc[a] \in InFlightPcs /\ pc'[a] = "done")
          => /\ ~analyzeDisabled'
             /\ spinnerHidden'
             /\ btnText' = RestoredLabel ]_vars

\* sidepanel.js after one successful and one failed attempt
C9_Witness ==
  /\ build = "sidepanel"
  /\ \E a, b \in Attempts : outcome[a] = "ok" /\ outcome[b] = "failed"
  /\ ~analyzeDisabled
  /\ spinnerHidden
  /\ btnText = "Start Analyze"

PreviewShows(v) ==
  /\ panelOpen
  /\ Shows(contentDisplay, v)
  /\ Visible = {"page-preview"}

\* C11: every value the Coordinator persists is eventually shown in the
\* preview area with Preview visible, also when the context action writes it
\* while the panel is closed and only then opens the panel.  (A value that
\* another write replaces in the slot before it is shown is not held
\* against the claim.)
C11_PersistedEventuallyShown ==
  \A v \in RelayPayloads :
    (slot = v /\ ~Shows(contentDisplay, v))
      ~> (PreviewShows(v) \/ slot \notin {v, Absent})

\* the number of CONTENT_SELECTED messages in msgs sent by activation a
ReportsBy(msgs, a) ==
  Cardinality({i \in 1..Len(msgs) : msgs[i].by = a})

\* the gesture is one the Relay captures: it leaves a selection that is not
\* empty after trimming, or it clicks an image
Capturing(sel, target) == Trim(sel) # <<>> \/ target.tag = "IMG"

\* C12: an activation of the Relay sends at most one CONTENT_SELECTED
\* report.  A gesture with an empty (after trimming) selection on a
\* non-image element changes nothing and leaves the activation listening;
\* the first capturing gesture is reported (the trimmed text if there is
\* one, otherwise the src of the clicked image) and in the same step both
\* listeners of the activation are removed, so no later gesture reaches it.
C12_OneReportPerActivation ==
  [][ /\ mouseupListeners' = clickListeners'
      /\ \A a \in 1..MaxActivations :
           /\ ReportsBy(sent', a) <= 1
           /\ ReportsBy(sent', a) = 1 => a \notin mouseupListeners'
           /\ (a \notin mouseupListeners /\ a \notin clickListeners)
                => ReportsBy(sent', a) = ReportsBy(sent, a)
      /\ \A sel \in Selections, target \in Targets :
           Gesture(sel, target)
             => IF Capturing(sel, target)
                  THEN \A a \in mouseupListeners :
                         /\ ReportsBy(sent', a) = 1
                         /\ [by |-> a,
                             payload |->
                               IF Trim(sel) # <<>>
                                 THEN Content("text", Trim(sel))
                                 ELSE Content("image", target.src)]
                              \in {sent'[i] : i \in 1..Len(sent')}
                  ELSE UNCHANGED <<mouseupListeners, clickListeners, sent>>
    ]_vars

\* one activation: a gesture was ignored or came too late, and exactly one
\* report was sent, the trimmed text of a selection
C12_Witness ==
  /\ activated = 1
  /\ gestures >= 2
  /\ sent = <<[by |-> 1, payload |-> Content("text", <<"a", " ", "a">>)]>>
  /\ mouseupListeners = {}
  /\ clickListeners = {}

\* r is x rounded to the nearest integer, a half rounding up, for x given in
\* tenths
IsRounded(r, tenths) == 10 * r - 5 <= tenths /\ tenths < 10 * r + 5

C14_StatusTieFavorsReal ==
  statusClass # "none"
    => /\ statusClass \in {"real-news", "fake-news"}
       /\ statusClass = "real-news"
            <=> formattedData.confidence.real >= formattedData.confidence.fake
       /\ (formattedData.confidence.real = 40
             /\ formattedData.confidence.fake = 60)
            => statusClass = "fake-news"

\* a tie at 50 / 50 classified real-news
C14_Witness ==
  /\ formattedData.confidence.real = 50
  /\ formattedData.confidence.fake = 50
  /\ statusClass = "real-news"

Positive == "#27ae60"
Negative == "#c0392b"
Neutral == "#f39c12"

\* C15: a bar is positive when its score is above 1e-6, negative when below
\* -1e-6 and neutral otherwise (2e-6 positive, -2e-6 negative, 0 neutral);
\* every bar gets exactly one of the three colours.
C15_KeywordColorBand ==
  statusClass # "none"
    => /\ Len(backgroundColor) = Len(formattedData.keywords)
       /\ \A i \in 1..Len(backgroundColor) :
            LET score == formattedData.keywords[i]
                above == score.k = "fin" /\ score.v > WORD_THRESHOLD
                below == score.k = "fin" /\ score.v < -WORD_THRESHOLD
            IN /\ backgroundColor[i] \in {Positive, Negative, Neutral}
               /\ backgroundColor[i] = Positive <=> above
               /\ backgroundColor[i] = Negative <=> below
               /\ backgroundColor[i] = Neutral <=> (~above /\ ~below)
               /\ score = Fin(20) => backgroundColor[i] = Positive
               /\ score = Fin(-20) => backgroundColor[i] = Negative
               /\ score = Fin(0) => backgroundColor[i] = Neutral

\* a score of exactly 1e-6 drawn neutral next to one of -2e-6 drawn negative
C15_Witness ==
  /\ formattedData.keywords = <<Fin(WORD_THRESHOLD), Fin(-20)>>
  /\ backgroundColor = <<Neutral, Negative>>

\* the largest absolute score of a rendered list of finite scores
MaxAbs(scores) ==
  CHOOSE m \in {MathAbs(scores[i]).v : i \in 1..Len(scores)} :
    \A i \in 1..Len(scores) : MathAbs(scores[i]).v <= m

\* c is the smallest multiple of p that is at least m
SmallestMultiple(c, p, m) == c % p = 0 /\ c >= m /\ c - p < m

\* p is 10^floor(log10(m))
IsMagnitude(p, m) ==
  /\ p <= m
  /\ m < 10 * p
  /\ \E e \in 0..7 : p = 10 ^ e

\* C16: for a list of finite scores the axis ceiling is 1.0 when the largest
\* absolute score is above 0.1, the smallest multiple of
\* 10^floor(log10(maxAbs)) that is at least maxAbs when 0 < maxAbs <= 0.1,
\* and 0.01 when every score is zero.
C16_AxisCeiling ==
  (/\ statusClass # "none"
   /\ formattedData.keywords # <<>>
   /\ \A i \in 1..Len(formattedData.keywords) :
        formattedData.keywords[i].k = "fin")
    => LET maxAbs == MaxAbs(formattedData.keywords)
       IN /\ chartMax.k = "fin"
          /\ maxAbs > Tenth => chartMax.v = One
          /\ (0 < maxAbs /\ maxAbs <= Tenth)
               => \E p \in 1..Tenth :
                    /\ IsMagnitude(p, maxAbs)
                    /\ SmallestMultiple(chartMax.v, p, maxAbs)
          /\ maxAbs = 0 => chartMax.v = Hundredth

MalformedResults == {"noConfidence", "noWords"}

C18_RequestEqualsPreviewedContent ==
  [][ \A a \in Attempts : \A c \in DetectContent(contentDisplay) :
        AnalyzeStart(a, c)
          => \E content \in RelayPayloads :
               /\ Shows(contentDisplay, content)
               /\ request'.type = content.type
               /\ request'.value = content.data ]_vars

\* the outcome of attempt a has been written to the result area: the error
\* message by the catch block, or the charts by the render callback
OutcomeRendered(a) ==
  \/ outcome[a] = "failed"
  \/ outcome[a] = "ok" /\ ~raf[a]

\* C19: the "Analyzing" placeholder of an attempt is written before the
\* charts or the error message of that attempt, never after them: the
\* result area does not show the placeholder of an attempt whose outcome has
\* been rendered.
C19_PlaceholderNeverAfterOutcome ==
  \A a \in Attempts :
    OutcomeRendered(a)
      => resultContent # [kind |-> "placeholder", attempt |-> a]

\* C20 as claimed: a value written between the listener's handling of an
\* earlier value and the removal that handling issued is lost: the removal
\* clears it from the slot and it is never shown in the preview area.
C20_SecondWriteLost ==
  [][ (late = 1 /\ slot = Absent /\ StorageChanged)
        => ~Shows(contentDisplay', Head(events)) ]_vars

\* C20 as amended: a write made while a removal is pending fires a change
\* event of its own that carries the value; the removal clears the value
\* from the slot but leaves that event queued; and the listener, which
\* renders the newValue of the event and never reads the slot, shows the
\* value on Preview when the event is delivered.
C20_SecondWriteClearedButShown ==
  [][ /\ (late = 0 /\ late' > 0)
           => /\ removes > 0
              /\ slot' # Absent
              /\ late' = Len(events')
              /\ events'[late'] = slot'
      /\ (late > 0 /\ StorageRemove)
           => /\ slot' = Absent
              /\ late' = late
              /\ late <= Len(events')
              /\ events'[late] = events[late]
      /\ (late = 1 /\ StorageChanged)
           => /\ Head(events) # Absent
              /\ Shows(contentDisplay', Head(events))
              /\ Visible' = {"page-preview"}
              /\ removes' = removes + 1 ]_vars

\* an image written while the removal for the text was pending was cleared
\* from the slot by that removal and shown afterwards
C20_Witness ==
  /\ late = -2
  /\ stimuli = 2
  /\ slot = Absent
  /\ Shows(contentDisplay, Content("image", "u1"))
  /\ Visible = {"page-preview"}

\* a navigation click or an analyze click: the explicit requests of the user
UserRequest ==
  \/ \E t \in NavTargets : NavClick(t)
  \/ AnalyzeClick

\* C21: once content has arrived and Preview is the visible page, every step
\* that is not a navigation click or an analyze click of the user (a timer,
\* the settling of a request, an animation frame, a storage callback, the end
\* of the loading sequence) leaves Preview the visible page.
C21_PreviewStaysUntilUserActs ==
  [][ (contentDisplay # NoNode /\ Visible = {"page-preview"} /\ ~UserRequest)
        => Visible' = {"page-preview"} ]_vars

\* the item of a navigation bar that stands for page p: none for Intro
IndicatorOf(p) ==
  CASE p = "page-intro" -> {}
    [] p = "page-select" -> {1}
    [] p = "page-preview" -> {2}
    [] p = "page-result" -> {3}

\* C22: after navigateTo(p) for a page p (from a navigation click, the end
\* of the loading sequence, the storage listener or the analyze handler of
\* sidepanel.js), every navigation bar has exactly the item of p active, and
\* none for Intro, whatever was active before; so no bar ever has more than
\* one active item.
C22_IndicatorDerivedFromPage ==
  [][ /\ \A p \in Pages :
           NavClick(p) => \A n \in Navs : navActive'[n] = IndicatorOf(p)
      /\ SplashDone
           => \A n \in Navs : navActive'[n] = IndicatorOf("page-intro")
      /\ (events # <<>> /\ Head(events) # Absent /\ StorageChanged)
           => \A n \in Navs : navActive'[n] = IndicatorOf("page-preview")
      /\ \A a \in Attempts : \A c \in DetectContent(contentDisplay) :
           (build = "sidepanel" /\ AnalyzeStart(a, c))
             => \A n \in Navs : navActive'[n] = IndicatorOf("page-result")
      /\ \A n \in Navs : Cardinality(navActive'[n]) <= 1 ]_vars

\* Select reached by a click after an arrival had put the indicator on the
\* Preview item
C22_Witness ==
  /\ contentDisplay # NoNode
  /\ Visible = {"page-select"}
  /\ \A n \in Navs : navActive[n] = {1}

\* the undestroyed charts are the ones the globals hold: at most one of
\* each kind
OneChartOfEachKind ==
  /\ Cardinality(liveConfidence) <= 1
  /\ Cardinality(liveKeyword) <= 1
  /\ liveConfidence = {confidenceChart} \ {0}
  /\ liveKeyword = {keywordChart} \ {0}

\* C23: every render creates Chart instances that did not exist before (it
\* updates none in place) and destroys the instances of the previous
\* render, so that afterwards, whatever attempts succeeded or failed before,
\* one confidence chart and one keyword chart exist undestroyed.
C23_RenderReplacesCharts ==
  [][ /\ \A a \in Attempts :
           RenderFrame(a)
             => /\ a \notin liveConfidence \cup liveKeyword
                /\ liveConfidence' = {a}
                /\ liveKeyword' = {a}
      /\ OneChartOfEachKind' ]_vars

\* the charts of a second successful attempt replaced those of the first
C23_Witness ==
  /\ outcome[1] = "ok"
  /\ outcome[2] = "ok"
  /\ \A a \in Attempts : ~raf[a]
  /\ liveConfidence = {2}
  /\ liveKeyword = {2}

\* v has a kind and a string payload
WellFormed(v) ==
  /\ v.type \in {"text", "image"}
  /\ v.data \in Texts \cup Urls \cup {""}

\* C24: a context action writes the selected text as kind text when text is
\* selected, and otherwise the URL of the clicked image as kind image; a
\* Relay report is stored as received; and after every step the slot is
\* empty or holds a value with a kind and a payload.
C24_WritesAreWellFormed ==
  [][ /\ \A s \in Texts \cup {""}, i \in BOOLEAN, u \in Urls :
           ContextMenuClick(s, i, u)
             => slot' = IF s # "" THEN Content("text", s)
                        ELSE Content("image", u)
      /\ \A p \in RelayPayloads : ContentSelectedMessage(p) => slot' = p
      /\ slot' = Absent \/ WellFormed(slot') ]_vars

\* the report of an image without a src is in the slot as the Relay sent it
C24_Witness ==
  /\ stimuli = 1
  /\ slot = Content("image", "")
  /\ events = <<slot>>

\* the result area shows the charts or the error message of attempt a
ShowsOutcomeOf(a) ==
  resultContent \in {[kind |-> "charts", attempt |-> a],
                     [kind |-> "error", attempt |-> a]}

\* C25: while the result area shows the outcome of an attempt, no step puts
\* the outcome (charts or error message) of an attempt triggered earlier in
\* its place.
C25_LaterOutcomeNotReplaced ==
  [][ \A a, b \in Attempts :
        (a < b /\ ShowsOutcomeOf(b)) => ~ShowsOutcomeOf(a)' ]_vars

\* C26: one gesture on the page (one selection, one click) adds at most one
\* CONTENT_SELECTED report to the messages sent, however many activations
\* came before it.
C26_OneReportPerGesture ==
  [][ \A sel \in Selections, target \in Targets :
        Gesture(sel, target) => Len(sent') <= Len(sent) + 1 ]_vars

====
